---- MODULE Spec2Model ----
(***************************************************************************)
(* Egyptian War server (src/src/server.py): the CardGame engine and the    *)
(* GameServer lobby that routes the two connections' messages to it.       *)
(*                                                                         *)
(* A card is the string "<rank>_of_<suit>" in the source.  It is modelled  *)
(* as the record [rank, suit]; card.split("_")[0] is the rank field (no    *)
(* rank of RANKS contains an underscore).                                  *)
(***************************************************************************)
EXTENDS Integers, Sequences, FiniteSets, TLC

\* ------------------------------------------------------------------------
\* Bounds of the model
\* ------------------------------------------------------------------------

\* random.shuffle is driven by one of MaxSeed pseudo-random streams.
MaxSeed == 3

\* At most MaxSlaps slap() calls and MaxRestarts restarts in one behaviour.
MaxSlaps == 1

MaxRestarts == 1

\* Connections that arrive in one behaviour, and messages they send in all.
MaxConns == 3

MaxMsgs == 3

\* ------------------------------------------------------------------------
\* game_common.py
\* ------------------------------------------------------------------------

RANKS ==
    << "A", "2", "3", "4", "5", "6", "7", "8", "9", "10",
       "jack", "queen", "king" >>

SUITS == << "hearts", "diamonds", "clubs", "spades" >>

Players == { "self", "opponent" }

\* ------------------------------------------------------------------------
\* CardGame (server.py)
\* ------------------------------------------------------------------------

\* len(self.deck) < 52 in deal_initial_cards
DECK_SIZE == 52

\* for _ in range(26) in deal_initial_cards
DEAL_ROUNDS == 26

\* f"{rank}_of_{suit}"
Card(rank, suit) == [rank |-> rank, suit |-> suit]

\* card.split("_")[0]
RankOf(card) == card.rank

\* One draw of the random stream behind random.shuffle.
NextRandom(x) == (x * 75 + 74) % 65537

Swap(s, i, j) == [s EXCEPT ![i] = s[j], ![j] = s[i]]

\* random.shuffle(x): for i in reversed(range(1, len(x))): j = randbelow(i + 1);
\* x[i], x[j] = x[j], x[i].  Positions are 1-based here.  (An empty list has
\* no position to swap; the test also makes TLC evaluate each swap in turn.)
RECURSIVE shuffle(_, _, _)
shuffle(deck, i, x) ==
    IF i < 2 \/ deck = << >> THEN deck
    ELSE LET x2 == NextRandom(x)
             j == (x2 % i) + 1
         IN shuffle(Swap(deck, i, j), i - 1, x2)

\* [f"{rank}_of_{suit}" for suit in SUITS for rank in RANKS]
FreshDeck ==
    [k \in 1..(Len(SUITS) * Len(RANKS)) |->
        Card(RANKS[((k - 1) % Len(RANKS)) + 1],
             SUITS[((k - 1) \div Len(RANKS)) + 1])]

\* The random streams a shuffle may draw from.
Seeds == 1..MaxSeed

\* The outcome of random.shuffle on the fresh deck, per stream (stream s
\* starts the generator at 534 + s).
ShuffledDecks == [s \in Seeds |-> shuffle(FreshDeck, Len(FreshDeck), 534 + s)]

\* CardGame.create_deck: the fresh deck, shuffled.
create_deck(seed) == ShuffledDecks[seed]

\* list.pop(): the last element, and the list without it.
PopBack(s) == SubSeq(s, 1, Len(s) - 1)

\* deal_initial_cards: 26 rounds, each gives the back card of the deck to
\* self_hand and then the next back card to opponent_hand, while cards last
\* (the rounds left once the deck is empty change nothing).
RECURSIVE deal(_, _)
deal(g, rounds) ==
    IF rounds = 0 \/ g.deck = << >> THEN g
    ELSE LET g1 == IF g.deck # << >>
                   THEN [g EXCEPT !.self_hand = Append(@, g.deck[Len(g.deck)]),
                                  !.deck = PopBack(@)]
                   ELSE g
             g2 == IF g1.deck # << >>
                   THEN [g1 EXCEPT !.opponent_hand = Append(@, g1.deck[Len(g1.deck)]),
                                   !.deck = PopBack(@)]
                   ELSE g1
         IN deal(g2, rounds - 1)

deal_initial_cards(g, seed) ==
    LET g0 == IF Len(g.deck) < DECK_SIZE
              THEN [g EXCEPT !.deck = create_deck((seed % MaxSeed) + 1)]
              ELSE g
    IN deal(g0, DEAL_ROUNDS)

\* A CardGame object before __init__ has run on it: no attribute is assigned
\* yet.  The record holds a placeholder of the attribute's type for each (an
\* empty list, the turn "unset", the number 0); __init__ overwrites them all.
NewObject ==
    [deck |-> << >>, self_hand |-> << >>, opponent_hand |-> << >>,
     pile |-> << >>, turn |-> "unset", royal_cards_needed |-> 0]

\* Mutant of ResetFields: __init__ leaves the pile of a live game as it is.
ResetFields_StalePile(g) ==
    [g EXCEPT !.deck = << >>,
              !.self_hand = << >>,
              !.opponent_hand = << >>,
              !.pile = IF g.turn = "unset" THEN << >> ELSE g.pile,
              !.turn = "self",
              !.royal_cards_needed = -1]

\* CardGame.__init__, lines 98-103: every field is assigned.
ResetFields(g) ==
    [g EXCEPT !.deck = << >>,
              !.self_hand = << >>,
              !.opponent_hand = << >>,
              !.pile = << >>,
              !.turn = "self",
              !.royal_cards_needed = -1]

\* CardGame.__init__, lines 106-108, on an instance whose fields are set:
\* create_deck(), then deal_initial_cards().
BuildAndDeal(g, seed) ==
    deal_initial_cards([g EXCEPT !.deck = create_deck(seed)], seed)

\* BuildAndDeal on the reset instance, computed once per stream.
DealtGames == [s \in Seeds |-> BuildAndDeal(ResetFields(NewObject), s)]

\* CardGame.__init__ run on the instance g (a new object, or the live game on
\* restart).
CardGame_init(g, seed) ==
    IF ResetFields(g) = ResetFields(NewObject)
    THEN DealtGames[seed]
    ELSE BuildAndDeal(ResetFields(g), seed)

\* Mutant of royal_cards: a king asks for five cards.
royal_cards_KingFive == ("ace" :> 4) @@ ("king" :> 5) @@ ("queen" :> 2) @@ ("jack" :> 1)

\* The dict royal_cards of play_card.
royal_cards == ("ace" :> 4) @@ ("king" :> 3) @@ ("queen" :> 2) @@ ("jack" :> 1)

Other(player) == IF player = "self" THEN "opponent" ELSE "self"

\* CardGame.hand
hand(g, player) == IF player = "self" THEN g.self_hand ELSE g.opponent_hand

\* Assignment through the list that hand(player) returns.
SetHand(g, player, h) ==
    IF player = "self" THEN [g EXCEPT !.self_hand = h]
    ELSE [g EXCEPT !.opponent_hand = h]

\* Mutant of is_valid_slap: the top-and-bottom test is missing.
is_valid_slap_NoTopBottom(g) ==
    LET pile == g.pile
        n == Len(pile)
    IN IF n < 2 THEN FALSE
       ELSE IF n >= 2 /\ RankOf(pile[n]) = RankOf(pile[n - 1]) THEN TRUE
       ELSE IF n >= 3 /\ RankOf(pile[n]) = RankOf(pile[n - 2]) THEN TRUE
       ELSE FALSE

\* CardGame.is_valid_slap
is_valid_slap(g) ==
    LET pile == g.pile
        n == Len(pile)
    IN IF n < 2 THEN FALSE
       ELSE IF n >= 2 /\ RankOf(pile[n]) = RankOf(pile[n - 1]) THEN TRUE
       ELSE IF n >= 3 /\ RankOf(pile[n]) = RankOf(pile[n - 2]) THEN TRUE
       ELSE IF n >= 2 /\ RankOf(pile[1]) = RankOf(pile[n]) THEN TRUE
       ELSE FALSE

\* Mutant of CanPlay: the turn is not checked.
CanPlay_IgnoreTurn(g, player) == hand(g, player) # << >>

\* play_card, line 170: the call acts only for the turn player with cards.
CanPlay(g, player) == player = g.turn /\ hand(g, player) # << >>

\* play_card, lines 171-172: the front card of the hand goes on top of the pile.
MoveFrontToPile(g, player) ==
    [SetHand(g, player, Tail(hand(g, player)))
        EXCEPT !.pile = Append(@, Head(hand(g, player)))]

\* Mutant of RoyalPlayed: the turn stays with the player of the royal card.
RoyalPlayed_KeepTurn(g, card_rank) ==
    [g EXCEPT !.royal_cards_needed = royal_cards[card_rank]]

\* play_card, lines 178-187: a rank found in royal_cards was played.
RoyalPlayed(g, card_rank) ==
    [g EXCEPT !.royal_cards_needed = royal_cards[card_rank],
              !.turn = Other(g.turn)]

\* Mutant of CountdownStep: the turn flips as in ordinary play.
CountdownStep_FlipTurn(g) ==
    [g EXCEPT !.royal_cards_needed = @ - 1, !.turn = Other(@)]

\* play_card, lines 188-193: another card during a countdown.
CountdownStep(g) == [g EXCEPT !.royal_cards_needed = @ - 1]

\* Mutant of AwardPile: the pile goes to the player who just played.
AwardPile_ToPlayer(g, player) ==
    LET g2 == SetHand(g, player, hand(g, player) \o g.pile)
    IN [g2 EXCEPT !.royal_cards_needed = -1,
                  !.pile = << >>,
                  !.turn = player]

\* Mutant of AwardPile: the countdown is left at 0.
AwardPile_KeepCountdown(g, player) ==
    [SetHand(g, Other(player), hand(g, Other(player)) \o g.pile)
        EXCEPT !.pile = << >>, !.turn = Other(player)]

\* play_card, lines 194-201: the countdown is over, the other player takes
\* the pile.
AwardPile(g, player) ==
    LET other_player == Other(player)
        g2 == SetHand(g, other_player, hand(g, other_player) \o g.pile)
    IN [g2 EXCEPT !.royal_cards_needed = -1,
                  !.pile = << >>,
                  !.turn = other_player]

\* Mutant of Alternate: the turn stays with the player.
Alternate_KeepTurn(g, player) == [g EXCEPT !.turn = player]

\* play_card, lines 202-205: no countdown, the turn alternates.
Alternate(g, player) == [g EXCEPT !.turn = Other(player)]

\* CardGame.play_card
play_card(g, player) ==
    IF CanPlay(g, player)
    THEN LET played_card == Head(hand(g, player))
             g1 == MoveFrontToPile(g, player)
             card_rank == RankOf(played_card)
         IN IF card_rank \in DOMAIN royal_cards
            THEN RoyalPlayed(g1, card_rank)
            ELSE IF g1.royal_cards_needed > 0
            THEN CountdownStep(g1)
            ELSE IF g1.royal_cards_needed = 0
            THEN AwardPile(g1, player)
            ELSE Alternate(g1, player)
    ELSE g

\* Mutant of SlapWin: the pile is copied to the hand and left on the table.
SlapWin_KeepPile(g, player) ==
    [SetHand(g, player, hand(g, player) \o g.pile)
        EXCEPT !.royal_cards_needed = -1]

\* Mutant of SlapWin: the countdown is left running.
SlapWin_KeepCountdown(g, player) ==
    [SetHand(g, player, hand(g, player) \o g.pile) EXCEPT !.pile = << >>]

\* Mutant of SlapWin: the slapper also takes the turn.
SlapWin_TakeTurn(g, player) ==
    [SetHand(g, player, hand(g, player) \o g.pile)
        EXCEPT !.pile = << >>, !.royal_cards_needed = -1, !.turn = player]

\* slap, lines 214-217: the slapper takes the pile, the countdown is dropped.
SlapWin(g, player) ==
    [SetHand(g, player, hand(g, player) \o g.pile)
        EXCEPT !.pile = << >>, !.royal_cards_needed = -1]

\* Mutant of SlapPenalty: the penalty also ends the countdown.
SlapPenalty_EndCountdown(g, player) ==
    [SetHand(g, player, Tail(hand(g, player)))
        EXCEPT !.pile = Append(@, Head(hand(g, player))),
               !.royal_cards_needed = -1]

\* slap, line 221: the slapper's front card goes on the pile as a penalty.
SlapPenalty(g, player) ==
    [SetHand(g, player, Tail(hand(g, player)))
        EXCEPT !.pile = Append(@, Head(hand(g, player)))]

\* CardGame.slap: the game after the call and the value returned.
slap(g, player) ==
    IF is_valid_slap(g)
    THEN [g |-> SlapWin(g, player), result |-> "correct"]
    ELSE IF hand(g, player) # << >>
    THEN [g |-> SlapPenalty(g, player), result |-> "incorrect"]
    ELSE [g |-> g, result |-> "incorrect"]

\* CardGame.status without the viewer remapping of turn
status_AbsoluteTurn(g, player) ==
    [kind |-> "state",
     turn |-> g.turn,
     self_hand |-> Len(IF player = "self" THEN g.self_hand ELSE g.opponent_hand),
     op_hand |-> Len(IF player = "self" THEN g.opponent_hand ELSE g.self_hand),
     pile |-> g.pile]

\* CardGame.status
status(g, player) ==
    LET turn == IF player = g.turn THEN "self" ELSE "opponent"
        self_hand == IF player = "self" THEN g.self_hand ELSE g.opponent_hand
        op_hand == IF player = "self" THEN g.opponent_hand ELSE g.self_hand
    IN [kind |-> "state",
        turn |-> turn,
        self_hand |-> Len(self_hand),
        op_hand |-> Len(op_hand),
        pile |-> g.pile]

\* ------------------------------------------------------------------------
\* State
\* ------------------------------------------------------------------------

VARIABLES
    game,       \* the CardGame instance (GameServer._game)
    pre,        \* the instance as it was when the most recent CardGame call began
    ret,        \* the most recent CardGame call: method, argument, return value
    nslaps,     \* slap() calls so far
    nrestarts,  \* restarts so far
    challenger, \* the player whose card set the countdown most recently
    challenge,  \* the card that set the countdown most recently
    roster,     \* GameServer._connections, the current list object
    sock,       \* per connection: "none", "open", "closed_ok", "closed_err"
    pc,         \* per connection: where its handle_events task stands
    frame,      \* per connection: the local variables of its handle_events task
    sent,       \* per connection: the last message sent to it
    nmsgs,      \* messages received so far
    action,     \* the most recent message received: the connection and the token
    overlapped  \* a call changed the game while another handler was between
                \* the two sends of a broadcast

engineVars == << game, pre, ret, nslaps, nrestarts, challenger, challenge >>

lobbyVars == << roster, sock, pc, frame, sent, nmsgs, action, overlapped >>

vars == << game, pre, ret, nslaps, nrestarts, challenger, challenge,
           roster, sock, pc, frame, sent, nmsgs, action, overlapped >>

Conns == 1..MaxConns

Call(op, player, result) == [op |-> op, player |-> player, result |-> result]

\* The locals of a handler: player, result, and the list iterator of the for
\* loop it is in.  An iterator walks a list object: the one _connections is
\* bound to (live), or one that _connections was bound to before (list).
NoFrame ==
    [player |-> "none", result |-> "none",
     live |-> FALSE, list |-> << >>, idx |-> 0]

NoMessage == [kind |-> "none"]

NoAction == [conn |-> 0, token |-> "none"]

\* handle_events line 51: the message that handler c received
Received(c, token) == [conn |-> c, token |-> token]

NoCard == [rank |-> "none", suit |-> "none"]

\* play_card, lines 178-187: the player whose call sets the countdown.
SetsCountdown(g, player) ==
    /\ CanPlay(g, player)
    /\ RankOf(Head(hand(g, player))) \in DOMAIN royal_cards

\* GameServer.__init__: no connection yet, self._game = CardGame()
\* (lines 24-26)
Init ==
    /\ game \in { CardGame_init(NewObject, s) : s \in Seeds }
    /\ pre = NewObject
    /\ ret = Call("__init__", "none", "none")
    /\ nslaps = 0
    /\ nrestarts = 0
    /\ challenger = "none"
    /\ challenge = NoCard
    /\ roster = << >>
    /\ sock = [c \in Conns |-> "none"]
    /\ pc = [c \in Conns |-> "idle"]
    /\ frame = [c \in Conns |-> NoFrame]
    /\ sent = [c \in Conns |-> NoMessage]
    /\ nmsgs = 0
    /\ action = NoAction
    /\ overlapped = FALSE

\* ------------------------------------------------------------------------
\* The engine driven directly: any method, any argument
\* ------------------------------------------------------------------------

PlayCard(player) ==
    /\ game' = play_card(game, player)
    /\ pre' = game
    /\ ret' = Call("play_card", player, "none")
    /\ challenger' = IF SetsCountdown(game, player) THEN player ELSE challenger
    /\ challenge' = IF SetsCountdown(game, player)
                    THEN Head(hand(game, player)) ELSE challenge
    /\ UNCHANGED << nslaps, nrestarts >>
    /\ UNCHANGED lobbyVars

Slap(player) ==
    /\ nslaps < MaxSlaps
    /\ game' = slap(game, player).g
    /\ pre' = game
    /\ ret' = Call("slap", player, slap(game, player).result)
    /\ nslaps' = nslaps + 1
    /\ UNCHANGED << nrestarts, challenger, challenge >>
    /\ UNCHANGED lobbyVars

\* self._game.__init__() on the existing instance
Restart ==
    /\ nrestarts < MaxRestarts
    /\ \E s \in Seeds : game' = CardGame_init(game, s)
    /\ pre' = game
    /\ ret' = Call("__init__", "none", "none")
    /\ nrestarts' = nrestarts + 1
    /\ challenger' = "none"
    /\ challenge' = NoCard
    /\ UNCHANGED nslaps
    /\ UNCHANGED lobbyVars

Next ==
    \/ \E player \in Players : PlayCard(player)
    \/ \E player \in Players : Slap(player)
    \/ Restart

Spec == Init /\ [][Next]_vars

\* ------------------------------------------------------------------------
\* The engine driven by two players who put cards down and never take the
\* pile: self lays a card, by a play or by the penalty of a slap, whenever
\* it can; opponent does so when self cannot.  Every behaviour is one of
\* play_card and slap calls from a fresh deal, with no limit on the slaps.
\* ------------------------------------------------------------------------

\* The call took g to g2 by putting one card on the pile.
PutsCard(g, g2) == Len(g2.pile) = Len(g.pile) + 1

\* The player has a call that puts a card on the pile.
CanPut(g, player) ==
    \/ PutsCard(g, play_card(g, player))
    \/ PutsCard(g, slap(g, player).g)

\* Whose move it is under this discipline.
MayPut(g, player) == player = "self" \/ ~CanPut(g, "self")

PutByPlay(player) ==
    /\ MayPut(game, player)
    /\ PutsCard(game, play_card(game, player))
    /\ game' = play_card(game, player)
    /\ pre' = game
    /\ ret' = Call("play_card", player, "none")
    /\ challenger' = IF SetsCountdown(game, player) THEN player ELSE challenger
    /\ challenge' = IF SetsCountdown(game, player)
                    THEN Head(hand(game, player)) ELSE challenge
    /\ UNCHANGED << nslaps, nrestarts >>
    /\ UNCHANGED lobbyVars

PutBySlap(player) ==
    /\ MayPut(game, player)
    /\ PutsCard(game, slap(game, player).g)
    /\ game' = slap(game, player).g
    /\ pre' = game
    /\ ret' = Call("slap", player, slap(game, player).result)
    /\ nslaps' = nslaps + 1
    /\ UNCHANGED << nrestarts, challenger, challenge >>
    /\ UNCHANGED lobbyVars

PutNext ==
    \/ \E player \in Players : PutByPlay(player)
    \/ \E player \in Players : PutBySlap(player)

PutSpec == Init /\ [][PutNext]_vars

\* ------------------------------------------------------------------------
\* GameServer (server.py): the lobby
\*
\* A handle_events task runs without interruption from one await to the
\* next.  Its positions (pc) are the awaits it can be suspended in:
\*   "recv"         async for message in socket
\*   "status_join"  the first send of send_all_game_status called at line 47
\*   "status"       the first send of send_all_game_status called in the try
\*   "slapsend"     a send of the slap_result loop
\*   "closing"      a close of the teardown loop
\* and "idle" (not started), "done" (returned), "failed" (left by an
\* exception that handle_events does not catch).  The await that ends
\* send_all_game_status leads to "recv" with nothing in between.
\* ------------------------------------------------------------------------

\* The lobby as one value, for the operators below.
Lobby ==
    [roster |-> roster, sock |-> sock, pc |-> pc, frame |-> frame, sent |-> sent]

\* conn.send(): delivered on an open connection, ConnectionClosed otherwise.
SendOutcome(L, target) ==
    IF L.sock[target] = "open" THEN "sent"
    ELSE IF L.sock[target] = "closed_ok" THEN "ConnectionClosedOK"
    ELSE "ConnectionClosedError"

Deliver(L, target, msg) == [L EXCEPT !.sent[target] = msg]

\* socket.close(): a normal closure of a connection that is open.
Close(L, target) ==
    [L EXCEPT !.sock[target] = IF @ = "open" THEN "closed_ok" ELSE @]

\* The handler is left by an exception: websockets fails its connection.
Fail(L, c) ==
    [L EXCEPT !.pc[c] = "failed",
              !.sock[c] = IF @ = "open" THEN "closed_err" ELSE @,
              !.frame[c].live = FALSE,
              !.frame[c].list = << >>,
              !.frame[c].idx = 0]

\* The list object the for loop of handler c walks.
IterList(L, c) == IF L.frame[c].live THEN L.roster ELSE L.frame[c].list

\* handle_events line 79 and the return: _connections is bound to a new empty
\* list (loops walking the old list keep it), the connection is closed.
Finish(L, c) ==
    LET kept == [h \in Conns |->
                    IF h # c /\ L.frame[h].live
                    THEN [L.frame[h] EXCEPT !.live = FALSE, !.list = L.roster]
                    ELSE IF h = c
                    THEN [L.frame[h] EXCEPT !.live = FALSE, !.list = << >>, !.idx = 0]
                    ELSE L.frame[h]]
    IN [Close(L, c) EXCEPT !.roster = << >>, !.frame = kept, !.pc[c] = "done"]

\* handle_events lines 77-78: the k-th round of the teardown loop.
CloseNext(L, c, k) ==
    IF k <= Len(IterList(L, c))
    THEN [Close(L, IterList(L, c)[k]) EXCEPT !.pc[c] = "closing", !.frame[c].idx = k]
    ELSE Finish(L, c)

\* handle_events line 77: the teardown loop starts on the current list.
BeginTeardown(L, c) ==
    CloseNext([L EXCEPT !.frame[c].live = TRUE, !.frame[c].idx = 0], c, 1)

\* handle_events lines 73-74: an exception raised inside the try.
Raise(L, c, exc) ==
    IF exc = "ConnectionClosedError" THEN BeginTeardown(L, c) ELSE Fail(L, c)

\* An exception raised by the code at pc: line 47 is outside the try.
RaiseAt(L, c, intry, exc) == IF intry THEN Raise(L, c, exc) ELSE Fail(L, c)

\* send_all_game_status lines 87-90: the length test and the first send.
StatusBegin(L, g, c, intry) ==
    IF Len(L.roster) >= 2
    THEN IF SendOutcome(L, L.roster[1]) = "sent"
         THEN [Deliver(L, L.roster[1], status(g, "self"))
                  EXCEPT !.pc[c] = IF intry THEN "status" ELSE "status_join"]
         ELSE RaiseAt(L, c, intry, SendOutcome(L, L.roster[1]))
    ELSE [L EXCEPT !.pc[c] = "recv"]

\* Mutant of StatusResume: the second connection is sent the view of self.
StatusResume_SelfView(L, g, c, intry) ==
    IF Len(L.roster) < 2
    THEN RaiseAt(L, c, intry, "IndexError")
    ELSE IF SendOutcome(L, L.roster[2]) = "sent"
    THEN [Deliver(L, L.roster[2], status(g, "self")) EXCEPT !.pc[c] = "recv"]
    ELSE RaiseAt(L, c, intry, SendOutcome(L, L.roster[2]))

\* send_all_game_status lines 91-93: the second send, on the list and the
\* game as they are when the task resumes.
StatusResume(L, g, c, intry) ==
    IF Len(L.roster) < 2
    THEN RaiseAt(L, c, intry, "IndexError")
    ELSE IF SendOutcome(L, L.roster[2]) = "sent"
    THEN [Deliver(L, L.roster[2], status(g, "opponent")) EXCEPT !.pc[c] = "recv"]
    ELSE RaiseAt(L, c, intry, SendOutcome(L, L.roster[2]))

\* The slap_result loop sending "incorrect" whatever slap() returned
SlapSend_FixedResult(L, g, c, k) ==
    IF k <= Len(IterList(L, c))
    THEN IF SendOutcome(L, IterList(L, c)[k]) = "sent"
         THEN [Deliver(L, IterList(L, c)[k],
                       [kind |-> "slap_result", result |-> "incorrect"])
                  EXCEPT !.pc[c] = "slapsend", !.frame[c].idx = k]
         ELSE Raise(L, c, SendOutcome(L, IterList(L, c)[k]))
    ELSE StatusBegin([L EXCEPT !.frame[c].live = FALSE, !.frame[c].list = << >>,
                               !.frame[c].idx = 0],
                     g, c, TRUE)

\* handle_events lines 65-71: the k-th round of the slap_result loop, and
\* send_all_game_status after the last.
SlapSend(L, g, c, k) ==
    IF k <= Len(IterList(L, c))
    THEN IF SendOutcome(L, IterList(L, c)[k]) = "sent"
         THEN [Deliver(L, IterList(L, c)[k],
                       [kind |-> "slap_result", result |-> L.frame[c].result])
                  EXCEPT !.pc[c] = "slapsend", !.frame[c].idx = k]
         ELSE Raise(L, c, SendOutcome(L, IterList(L, c)[k]))
    ELSE StatusBegin([L EXCEPT !.frame[c].live = FALSE, !.frame[c].list = << >>,
                               !.frame[c].idx = 0],
                     g, c, TRUE)

\* handle_events without the capacity test of lines 39-40
Join_NoCapacity(L, g, c) ==
    LET L1 == [L EXCEPT !.roster = Append(@, c),
                        !.sock[c] = "open",
                        !.frame[c].player =
                            IF Len(L.roster) + 1 = 1 THEN "self" ELSE "opponent"]
    IN IF Len(L1.roster) = 2
       THEN StatusBegin(L1, g, c, FALSE)
       ELSE [L1 EXCEPT !.pc[c] = "recv"]

\* handle_events lines 39-47: a connection arrives.
Join(L, g, c) ==
    IF Len(L.roster) = 2
    THEN [L EXCEPT !.pc[c] = "done", !.sock[c] = "closed_ok"]
    ELSE LET L1 == [L EXCEPT !.roster = Append(@, c),
                             !.sock[c] = "open",
                             !.frame[c].player =
                                 IF Len(L.roster) + 1 = 1 THEN "self" ELSE "opponent"]
         IN IF Len(L1.roster) = 2
            THEN StatusBegin(L1, g, c, FALSE)
            ELSE [L1 EXCEPT !.pc[c] = "recv"]

SetLobby(L) ==
    /\ roster' = L.roster
    /\ sock' = L.sock
    /\ pc' = L.pc
    /\ frame' = L.frame
    /\ sent' = L.sent

\* Handler c changes the game from g to g2 while another handler is
\* suspended between the two sends of send_all_game_status.
Overlaps(c, g, g2) ==
    /\ g2 # g
    /\ \E d \in Conns : d # c /\ pc[d] \in { "status", "status_join" }

\* Connections are numbered in the order they arrive.
Connect(c) ==
    /\ pc[c] = "idle"
    /\ \A b \in Conns : b < c => pc[b] # "idle"
    /\ SetLobby(Join(Lobby, game, c))
    /\ UNCHANGED << engineVars, nmsgs, action, overlapped >>

\* The client closes the connection, or the transport fails.
Disconnect(c) ==
    /\ sock[c] = "open"
    /\ \E how \in { "closed_ok", "closed_err" } : sock' = [sock EXCEPT ![c] = how]
    /\ UNCHANGED << engineVars, roster, pc, frame, sent, nmsgs, action, overlapped >>

\* async for message in socket: the connection is closed, the loop is left.
LoopExit(c) ==
    /\ pc[c] = "recv"
    /\ sock[c] # "open"
    /\ SetLobby(BeginTeardown(Lobby, c))
    /\ UNCHANGED << engineVars, nmsgs, action, overlapped >>

Receivable(c) ==
    /\ pc[c] = "recv"
    /\ sock[c] = "open"
    /\ nmsgs < MaxMsgs

\* case "restart"
ReceiveRestart(c) ==
    /\ Receivable(c)
    /\ nrestarts < MaxRestarts
    /\ \E s \in Seeds : game' = CardGame_init(game, s)
    /\ pre' = game
    /\ ret' = Call("__init__", "none", "none")
    /\ nrestarts' = nrestarts + 1
    /\ SetLobby(StatusBegin(Lobby, game', c, TRUE))
    /\ nmsgs' = nmsgs + 1
    /\ action' = Received(c, "restart")
    /\ overlapped' = (overlapped \/ Overlaps(c, game, game'))
    /\ challenger' = "none"
    /\ challenge' = NoCard
    /\ UNCHANGED nslaps

\* case "pile" with a slap of the other player applied between the turn
\* check and play_card
ReceivePile_SlapBetween(c) ==
    /\ Receivable(c)
    /\ IF frame[c].player = game.turn
       THEN /\ game' = play_card(slap(game, Other(frame[c].player)).g, frame[c].player)
            /\ pre' = game
            /\ ret' = Call("play_card", frame[c].player, "none")
            /\ challenger' = IF SetsCountdown(game, frame[c].player)
                              THEN frame[c].player ELSE challenger
            /\ challenge' = IF SetsCountdown(game, frame[c].player)
                            THEN Head(hand(game, frame[c].player)) ELSE challenge
            /\ SetLobby(StatusBegin(Lobby, game', c, TRUE))
       ELSE UNCHANGED << game, pre, ret, challenger, challenge, roster, sock, pc, frame, sent >>
    /\ nmsgs' = nmsgs + 1
    /\ action' = Received(c, "pile")
    /\ overlapped' = (overlapped \/ Overlaps(c, game, game'))
    /\ UNCHANGED << nslaps, nrestarts >>

\* case "pile"
ReceivePile(c) ==
    /\ Receivable(c)
    /\ IF frame[c].player = game.turn
       THEN /\ game' = play_card(game, frame[c].player)
            /\ pre' = game
            /\ ret' = Call("play_card", frame[c].player, "none")
            /\ challenger' = IF SetsCountdown(game, frame[c].player)
                              THEN frame[c].player ELSE challenger
            /\ challenge' = IF SetsCountdown(game, frame[c].player)
                            THEN Head(hand(game, frame[c].player)) ELSE challenge
            /\ SetLobby(StatusBegin(Lobby, game', c, TRUE))
       ELSE UNCHANGED << game, pre, ret, challenger, challenge, roster, sock, pc, frame, sent >>
    /\ nmsgs' = nmsgs + 1
    /\ action' = Received(c, "pile")
    /\ overlapped' = (overlapped \/ Overlaps(c, game, game'))
    /\ UNCHANGED << nslaps, nrestarts >>

\* case "slap"
ReceiveSlap(c) ==
    /\ Receivable(c)
    /\ nslaps < MaxSlaps
    /\ game' = slap(game, frame[c].player).g
    /\ pre' = game
    /\ ret' = Call("slap", frame[c].player, slap(game, frame[c].player).result)
    /\ nslaps' = nslaps + 1
    /\ SetLobby(SlapSend([Lobby EXCEPT
                            !.frame[c].result = slap(game, frame[c].player).result,
                            !.frame[c].live = TRUE,
                            !.frame[c].idx = 0],
                         game', c, 1))
    /\ nmsgs' = nmsgs + 1
    /\ action' = Received(c, "slap")
    /\ overlapped' = (overlapped \/ Overlaps(c, game, game'))
    /\ UNCHANGED << nrestarts, challenger, challenge >>

\* An unmatched message treated as the end of the receive loop
ReceiveOther_Teardown(c) ==
    /\ Receivable(c)
    /\ nmsgs' = nmsgs + 1
    /\ action' = Received(c, "other")
    /\ SetLobby(BeginTeardown(Lobby, c))
    /\ UNCHANGED << engineVars, overlapped >>

\* Any other message: no case of the match applies.
ReceiveOther(c) ==
    /\ Receivable(c)
    /\ nmsgs' = nmsgs + 1
    /\ action' = Received(c, "other")
    /\ UNCHANGED << engineVars, roster, sock, pc, frame, sent, overlapped >>

\* The task resumes from the first send of send_all_game_status.
ResumeStatus(c) ==
    /\ pc[c] \in { "status", "status_join" }
    /\ SetLobby(StatusResume(Lobby, game, c, pc[c] = "status"))
    /\ UNCHANGED << engineVars, nmsgs, action, overlapped >>

\* The task resumes from a send of the slap_result loop.
ResumeSlap(c) ==
    /\ pc[c] = "slapsend"
    /\ SetLobby(SlapSend(Lobby, game, c, frame[c].idx + 1))
    /\ UNCHANGED << engineVars, nmsgs, action, overlapped >>

\* The task resumes from a close of the teardown loop.
ResumeClose(c) ==
    /\ pc[c] = "closing"
    /\ SetLobby(CloseNext(Lobby, c, frame[c].idx + 1))
    /\ UNCHANGED << engineVars, nmsgs, action, overlapped >>

LobbyNext ==
    \E c \in Conns :
        \/ Connect(c)
        \/ Disconnect(c)
        \/ LoopExit(c)
        \/ ReceiveRestart(c)
        \/ ReceivePile(c)
        \/ ReceiveSlap(c)
        \/ ReceiveOther(c)
        \/ ResumeStatus(c)
        \/ ResumeSlap(c)
        \/ ResumeClose(c)

\* The lobby is explored from the game that stream 1 deals; a restart draws
\* any stream.
LobbyInit == Init /\ game = CardGame_init(NewObject, 1)

LobbySpec == LobbyInit /\ [][LobbyNext]_vars

\* The event loop runs every task that is ready: a handler whose await has
\* completed resumes, and a handler waiting on a closed connection leaves its
\* receive loop.  Nothing obliges a client to connect, send or disconnect.
LobbyFairness ==
    \A c \in Conns :
        /\ WF_lobbyVars(LoopExit(c))
        /\ WF_lobbyVars(ResumeStatus(c))
        /\ WF_lobbyVars(ResumeSlap(c))
        /\ WF_lobbyVars(ResumeClose(c))

FairLobbySpec == LobbySpec /\ LobbyFairness

\* ------------------------------------------------------------------------
\* Vocabulary of the claims
\* ------------------------------------------------------------------------

\* The royal ranks and their values as the specification gives them, under
\* the names the deck uses for the four ranks.
SpecRoyalValue == ("A" :> 4) @@ ("king" :> 3) @@ ("queen" :> 2) @@ ("jack" :> 1)

\* The three slap patterns as the specification states them.
SlapRule(pile) ==
    LET n == Len(pile)
    IN \/ n >= 2 /\ RankOf(pile[n]) = RankOf(pile[n - 1])
       \/ n >= 3 /\ RankOf(pile[n]) = RankOf(pile[n - 2])
       \/ n >= 2 /\ RankOf(pile[1]) = RankOf(pile[n])

\* The most recent call was play_card by the turn player holding cards.
Played ==
    /\ ret.op = "play_card"
    /\ ret.player = pre.turn
    /\ hand(pre, ret.player) # << >>

\* The card that call played.
PlayedCard == Head(hand(pre, ret.player))

\* The most recent play_card call awarded the pile to the other player.
Awarded ==
    /\ hand(game, Other(ret.player))
          = hand(pre, Other(ret.player)) \o Append(pre.pile, PlayedCard)
    /\ hand(game, ret.player) = Tail(hand(pre, ret.player))
    /\ game.pile = << >>
    /\ game.royal_cards_needed = -1
    /\ game.turn = Other(ret.player)

\* A fresh deal: 26 cards in each hand, nothing on the pile, turn self and
\* no countdown.
FreshDeal(g) ==
    /\ Len(g.self_hand) = 26
    /\ Len(g.opponent_hand) = 26
    /\ g.pile = << >>
    /\ g.turn = "self"
    /\ g.royal_cards_needed = -1

\* ------------------------------------------------------------------------
\* C1
\* ------------------------------------------------------------------------

\* C1 (card conservation): in every state of the lobby, whatever the two
\* handlers have received and wherever they are suspended, the two hands and
\* the pile hold 52 cards together.
C1_CardConservation ==
    Len(game.self_hand) + Len(game.opponent_hand) + Len(game.pile) = 52

\* A slap has just taken the pile while the handler of the other player is
\* suspended between the two sends of a status broadcast.
C1_Witness ==
    /\ ret.op = "slap"
    /\ ret.result = "correct"
    /\ game.pile = << >>
    /\ \E c \in Conns : pc[c] = "status" /\ frame[c].player # ret.player

\* ------------------------------------------------------------------------
\* C3
\* ------------------------------------------------------------------------

\* C3 (fresh session per lobby): whenever the roster reaches two connections,
\* the game whose status is broadcast is a fresh deal.
C3_FreshSessionPerLobby ==
    [][(Len(roster) < 2 /\ Len(roster') = 2) => FreshDeal(game')]_vars

\* ------------------------------------------------------------------------
\* C2
\* ------------------------------------------------------------------------

\* C2 (deal fairness): right after CardGame.__init__, at construction or on a
\* restart from any state, both hands hold 26 cards, the pile is empty, turn
\* is self and the countdown is -1.
C2_DealFairness == ret.op = "__init__" => FreshDeal(game)

\* A restart made in the middle of a countdown, with cards on the pile and
\* the turn at opponent.
C2_Witness ==
    /\ ret.op = "__init__"
    /\ nrestarts = 1
    /\ pre.pile # << >>
    /\ pre.royal_cards_needed >= 0
    /\ pre.turn = "opponent"
    /\ Len(pre.self_hand) # 26

\* ------------------------------------------------------------------------
\* C4
\* ------------------------------------------------------------------------

\* C4 (royal play): when the turn player plays an ace, king, queen or jack,
\* the countdown becomes that rank's value (4, 3, 2, 1), whatever it was, and
\* the turn flips.  The deck's aces are the cards of rank "A".
C4_RoyalPlay ==
    (Played /\ RankOf(PlayedCard) \in DOMAIN SpecRoyalValue) =>
        /\ game.royal_cards_needed = SpecRoyalValue[RankOf(PlayedCard)]
        /\ game.turn = Other(pre.turn)

\* ------------------------------------------------------------------------
\* C5
\* ------------------------------------------------------------------------

\* C5 (countdown): a non-royal card played by the turn player while the
\* countdown is above 0 lowers it by exactly one, leaves the turn where it is
\* and leaves the pile (now with that card on top) on the table.
C5_Countdown ==
    (Played /\ RankOf(PlayedCard) \notin DOMAIN SpecRoyalValue
            /\ pre.royal_cards_needed > 0) =>
        /\ game.royal_cards_needed = pre.royal_cards_needed - 1
        /\ game.turn = pre.turn
        /\ game.pile = Append(pre.pile, PlayedCard)
        /\ hand(game, ret.player) = Tail(hand(pre, ret.player))
        /\ hand(game, Other(ret.player)) = hand(pre, Other(ret.player))

\* The third non-royal card after a king, with no slap in between: the
\* countdown has gone 3 -> 2 -> 1 -> 0 and the turn has not moved.
C5_Witness ==
    /\ Played
    /\ nslaps = 0
    /\ pre.royal_cards_needed = 1
    /\ game.royal_cards_needed = 0
    /\ game.turn = ret.player
    /\ Len(game.pile) >= 4
    /\ RankOf(game.pile[Len(game.pile) - 3]) = "king"

\* ------------------------------------------------------------------------
\* C6
\* ------------------------------------------------------------------------

\* C6 as stated (award at countdown 0): whatever card the turn player plays
\* when the countdown is 0, the other player takes the pile, the countdown
\* becomes -1 and the turn goes to the other player.
C6_AwardAnyCard ==
    (Played /\ pre.royal_cards_needed = 0) => Awarded

\* C6 as amended: the same for every non-royal card played at countdown 0.
C6_AwardNonRoyal ==
    (Played /\ pre.royal_cards_needed = 0
            /\ RankOf(PlayedCard) \notin DOMAIN SpecRoyalValue) => Awarded

\* A non-royal card played at countdown 0 onto a pile of at least three.
C6_Witness ==
    /\ Played
    /\ pre.royal_cards_needed = 0
    /\ RankOf(PlayedCard) \notin DOMAIN SpecRoyalValue
    /\ Len(pre.pile) >= 3
    /\ game.pile = << >>

\* ------------------------------------------------------------------------
\* C7
\* ------------------------------------------------------------------------

\* C7 (slap validity): is_valid_slap is true exactly when the pile shows
\* doubles, a sandwich or top-and-bottom, and false below two cards.
C7_SlapValidity ==
    /\ is_valid_slap(game) = SlapRule(game.pile)
    /\ Len(game.pile) < 2 => ~is_valid_slap(game)

\* A pile that is valid by top-and-bottom alone.
C7_Witness ==
    /\ Len(game.pile) >= 4
    /\ RankOf(game.pile[Len(game.pile)]) # RankOf(game.pile[Len(game.pile) - 1])
    /\ RankOf(game.pile[Len(game.pile)]) # RankOf(game.pile[Len(game.pile) - 2])
    /\ RankOf(game.pile[1]) = RankOf(game.pile[Len(game.pile)])
    /\ is_valid_slap(game)

\* ------------------------------------------------------------------------
\* C8
\* ------------------------------------------------------------------------

\* C8 (successful slap): a slap on a valid pile, by either player, gives the
\* slapper the whole pile behind the cards already held, empties the pile,
\* forces the countdown to -1, leaves the other hand alone and returns
\* "correct".
C8_SuccessfulSlap ==
    (ret.op = "slap" /\ SlapRule(pre.pile)) =>
        /\ hand(game, ret.player) = hand(pre, ret.player) \o pre.pile
        /\ game.pile = << >>
        /\ game.royal_cards_needed = -1
        /\ hand(game, Other(ret.player)) = hand(pre, Other(ret.player))
        /\ ret.result = "correct"

\* A valid slap by the player whose turn it is not, during a countdown.
C8_Witness ==
    /\ ret.op = "slap"
    /\ SlapRule(pre.pile)
    /\ ret.player # pre.turn
    /\ pre.royal_cards_needed >= 0
    /\ ret.result = "correct"

\* ------------------------------------------------------------------------
\* C9
\* ------------------------------------------------------------------------

\* C9 (failed slap): a slap on a pile that is not valid returns "incorrect";
\* a slapper holding cards loses exactly the front card to the top of the
\* pile and the countdown stays; a slapper without cards changes nothing.
\* The other hand is unchanged.
C9_FailedSlap ==
    (ret.op = "slap" /\ ~SlapRule(pre.pile)) =>
        /\ ret.result = "incorrect"
        /\ hand(game, Other(ret.player)) = hand(pre, Other(ret.player))
        /\ IF hand(pre, ret.player) # << >>
           THEN /\ hand(game, ret.player) = Tail(hand(pre, ret.player))
                /\ game.pile = Append(pre.pile, Head(hand(pre, ret.player)))
                /\ game.royal_cards_needed = pre.royal_cards_needed
           ELSE game = pre

\* A failed slap during a countdown whose penalty card is a jack, queen or
\* king.
C9_Witness ==
    /\ ret.op = "slap"
    /\ ~SlapRule(pre.pile)
    /\ hand(pre, ret.player) # << >>
    /\ RankOf(Head(hand(pre, ret.player))) \in DOMAIN royal_cards
    /\ pre.royal_cards_needed > 0
    /\ ret.result = "incorrect"

\* ------------------------------------------------------------------------
\* C10
\* ------------------------------------------------------------------------

\* C10 (no-op safety): play_card for a player who is not the turn player, or
\* whose hand is empty, leaves the whole game as it was.
C10_PlayNoOp ==
    (ret.op = "play_card"
        /\ (ret.player # pre.turn \/ hand(pre, ret.player) = << >>)) =>
        game = pre

\* play_card for a player who holds cards while it is the other player's
\* turn, the pile being non-empty.
C10_Witness ==
    /\ ret.op = "play_card"
    /\ ret.player # pre.turn
    /\ hand(pre, ret.player) # << >>
    /\ pre.pile # << >>
    /\ game = pre

\* ------------------------------------------------------------------------
\* C11
\* ------------------------------------------------------------------------

\* C11 (viewer remapping symmetry): in every reachable state the status for
\* viewer self reports turn "self" exactly when turn is self, the status for
\* viewer opponent reports turn "self" exactly when turn is opponent, and so
\* exactly one of the two projections reports "self".  (status is a
\* projection of the game: it has no effect on it.)
C11_ViewerSymmetry ==
    /\ (status(game, "self").turn = "self") <=> (game.turn = "self")
    /\ (status(game, "opponent").turn = "self") <=> (game.turn = "opponent")
    /\ (status(game, "self").turn = "self") # (status(game, "opponent").turn = "self")
    /\ status(game, "self").turn \in Players
    /\ status(game, "opponent").turn \in Players

\* The turn is with opponent after a play by self: the projection for
\* opponent is the one that reports "self".
C11_Witness ==
    /\ ret.op = "play_card"
    /\ ret.player = "self"
    /\ game.turn = "opponent"
    /\ status(game, "opponent").turn = "self"
    /\ status(game, "self").turn = "opponent"

\* ------------------------------------------------------------------------
\* C12
\* ------------------------------------------------------------------------

\* A connection that was turned away at the capacity test: its handler has
\* started and no role was ever assigned to it.
Rejected(c) == pc[c] # "idle" /\ frame[c].player = "none"

\* C12 (lobby capacity): the roster never holds more than two connections;
\* a connection that arrives while the roster holds two does not join it and
\* leaves the game as it is, its handler returns at once, and from then on it
\* stays returned, so that no message of it is ever dispatched to the engine.
C12_LobbyCapacity ==
    [][ /\ Len(roster') <= 2
        /\ \A c \in Conns :
              (pc[c] = "idle" /\ pc'[c] # "idle" /\ Len(roster) = 2) =>
                  /\ roster' = roster
                  /\ game' = game
                  /\ pc'[c] = "done"
                  /\ Rejected(c)'
        /\ \A c \in Conns :
              Rejected(c) =>
                  /\ Rejected(c)'
                  /\ pc'[c] = "done"
                  /\ \A k \in 1..Len(roster') : roster'[k] # c
      ]_vars

\* A third connection has been turned away while two are in the roster.
C12_Witness ==
    /\ Len(roster) = 2
    /\ \E c \in Conns : Rejected(c) /\ pc[c] = "done" /\ sock[c] # "open"

\* ------------------------------------------------------------------------
\* C13
\* ------------------------------------------------------------------------

InRoster(c) == \E k \in 1..Len(roster) : roster[k] = c

\* Handler c has just taken the token from its connection, one of the two
\* of a full lobby, both open.
Dispatched(c, token) ==
    /\ action' = Received(c, token)
    /\ nmsgs' = nmsgs + 1
    /\ InRoster(c)
    /\ Len(roster) = 2
    /\ sock[roster[1]] = "open"
    /\ sock[roster[2]] = "open"

\* C13 (out-of-turn pile): when a connection whose role is not the current
\* turn sends "pile" in a full lobby, the game is unchanged and a status
\* broadcast to both connections nevertheless starts: the status is sent to
\* the first connection and the handler goes on to send it to the second.
C13_OutOfTurnPileBroadcast ==
    [][ \A c \in Conns :
          (Dispatched(c, "pile") /\ frame[c].player # game.turn) =>
              /\ game' = game
              /\ sent'[roster[1]] = status(game, "self")
              /\ pc'[c] = "status"
      ]_vars

\* ------------------------------------------------------------------------
\* C14
\* ------------------------------------------------------------------------

\* C14 (lobby-full notification): a connection turned away because two
\* connections are in the roster has been sent a message of kind "full" (the
\* last message sent to it, as it is then closed).
C14_FullNotification ==
    \A c \in Conns : Rejected(c) => sent[c].kind = "full"

\* ------------------------------------------------------------------------
\* C15
\* ------------------------------------------------------------------------

\* C15 (teardown on disconnect): whenever a connection of the roster is
\* closed, gracefully or by a transport error, eventually the roster is empty
\* and the connections that were in it with the closed one are closed too.
C15_Teardown ==
    \A c \in Conns : \A d \in Conns :
        (InRoster(c) /\ InRoster(d) /\ sock[c] \in { "closed_ok", "closed_err" })
            ~> (roster = << >> /\ sock[d] # "open")

\* ------------------------------------------------------------------------
\* C16
\* ------------------------------------------------------------------------

SlapResult(result) == [kind |-> "slap_result", result |-> result]

\* Handler c takes a step of its own.
Steps(c) == pc'[c] # pc[c] \/ frame'[c].idx # frame[c].idx

\* Both connections of the full roster are open.
BothOpen == Len(roster) = 2 /\ sock[roster[1]] = "open" /\ sock[roster[2]] = "open"

\* The lobby of connection c is full and both its connections are open.
LobbyOpen(c) == InRoster(c) /\ BothOpen

C17_UnrecognizedToken ==
    [][ \A c \in Conns :
          (action' = Received(c, "other") /\ nmsgs' = nmsgs + 1) =>
              /\ game' = game
              /\ roster' = roster
              /\ sent' = sent
              /\ sock' = sock
              /\ pc' = pc
              /\ pc'[c] = "recv"
              /\ frame' = frame
      ]_vars

\* An unrecognized token has been received in a full lobby in the middle of
\* a game; its connection is still open and served.
C17_Witness ==
    /\ action.token = "other"
    /\ Len(roster) = 2
    /\ game.pile # << >>
    /\ \E c \in Conns :
          /\ action.conn = c
          /\ InRoster(c)
          /\ pc[c] = "recv"
          /\ sock[c] = "open"

\* ------------------------------------------------------------------------
\* C18
\* ------------------------------------------------------------------------

\* C18 (award recipient): when a non-royal card is played at countdown 0,
\* the pile goes to the player whose royal card set that countdown, who is
\* the player other than the one who just played: that hand becomes what it
\* was followed by the pile in play order with the card just played on top,
\* the pile is empty, the countdown is -1 and the turn is the recipient's.
\* This holds whatever plays and slaps came before.
C18_AwardRecipient ==
    (Played /\ pre.royal_cards_needed = 0
        /\ RankOf(PlayedCard) \notin DOMAIN SpecRoyalValue) =>
        /\ challenger = Other(ret.player)
        /\ challenger # ret.player
        /\ hand(game, challenger) = hand(pre, challenger) \o pre.pile \o << PlayedCard >>
        /\ hand(game, ret.player) = Tail(hand(pre, ret.player))
        /\ game.pile = << >>
        /\ game.royal_cards_needed = -1
        /\ game.turn = challenger

\* The pile is awarded to opponent, whose royal card set the countdown,
\* after a slap has taken place in the game.
C18_Witness ==
    /\ Played
    /\ pre.royal_cards_needed = 0
    /\ RankOf(PlayedCard) \notin DOMAIN SpecRoyalValue
    /\ nslaps = 1
    /\ ret.player = "self"
    /\ challenger = "opponent"
    /\ game.turn = "opponent"
    /\ game.pile = << >>

\* ------------------------------------------------------------------------
\* C19
\* ------------------------------------------------------------------------

\* C19 (ordinary alternation): when the turn player, holding cards, plays a
\* non-royal card while the countdown is -1, exactly the front card of that
\* hand moves to the top of the pile, the countdown stays -1, the other hand
\* is unchanged and the turn flips to the other player.
C19_Alternation ==
    (Played /\ pre.royal_cards_needed = -1
        /\ RankOf(PlayedCard) \notin DOMAIN SpecRoyalValue) =>
        /\ hand(game, ret.player) = Tail(hand(pre, ret.player))
        /\ game.pile = Append(pre.pile, PlayedCard)
        /\ game.royal_cards_needed = -1
        /\ hand(game, Other(ret.player)) = hand(pre, Other(ret.player))
        /\ game.turn = Other(ret.player)
        /\ game.turn # pre.turn

\* Opponent answers a plain card with a plain card, no countdown running.
C19_Witness ==
    /\ Played
    /\ ret.player = "opponent"
    /\ pre.royal_cards_needed = -1
    /\ pre.pile # << >>
    /\ RankOf(PlayedCard) \notin DOMAIN SpecRoyalValue
    /\ game.turn = "self"
    /\ Len(game.pile) = Len(pre.pile) + 1

\* ------------------------------------------------------------------------
\* C20
\* ------------------------------------------------------------------------

\* Handler c has just taken the token from its connection.
Took(c, token) == action' = Received(c, token) /\ nmsgs' = nmsgs + 1

\* C20 (atomic mutations): the game changes only in the step in which a
\* handler takes a message, and by exactly one whole engine call applied to
\* the game as it was when the message was taken: a "pile" that passes the
\* turn check plays the front card of the hand of the player whose turn it
\* was at the check, a "slap" is the sender's slap, a "restart" a fresh deal.
\* No step of another handler comes between the check and the mutation, and
\* no handler changes the game when it resumes from an await.
C20_AtomicMutations ==
    [][ /\ game' # game => (nmsgs' = nmsgs + 1 /\ pre' = game)
        /\ \A c \in Conns :
              (Took(c, "pile") /\ frame[c].player = game.turn
                    /\ hand(game, game.turn) # << >>) =>
                  /\ game' = play_card(game, game.turn)
                  /\ ret' = Call("play_card", game.turn, "none")
                  /\ hand(game', game.turn) = Tail(hand(game, game.turn))
                  /\ \/ game'.pile = Append(game.pile, Head(hand(game, game.turn)))
                     \/ /\ game'.pile = << >>
                        /\ hand(game', Other(game.turn)) =
                              hand(game, Other(game.turn)) \o
                                  Append(game.pile, Head(hand(game, game.turn)))
        /\ \A c \in Conns :
              Took(c, "slap") =>
                  /\ game' = slap(game, frame[c].player).g
                  /\ ret' = Call("slap", frame[c].player,
                                 slap(game, frame[c].player).result)
        /\ \A c \in Conns :
              Took(c, "restart") => (ret'.op = "__init__" /\ FreshDeal(game'))
      ]_vars

\* A "pile" that passed the turn check has been applied while the handler of
\* the other connection is suspended in the middle of a broadcast.
C20_Witness ==
    /\ Len(roster) = 2
    /\ ret.op = "play_card"
    /\ game.pile = Append(pre.pile, Head(hand(pre, pre.turn)))
    /\ \E c \in Conns : \E d \in Conns :
          /\ c # d
          /\ action = Received(c, "pile")
          /\ frame[c].player = pre.turn
          /\ pc[c] = "status"
          /\ pc[d] \in { "status", "slapsend" }

\* ------------------------------------------------------------------------
\* C22
\* ------------------------------------------------------------------------

\* C22 (countdown range): in every reachable state the countdown is one of
\* -1, 0, 1, 2, 3, 4 and the turn is self or opponent.
C22_CountdownRange ==
    /\ game.royal_cards_needed \in -1..4
    /\ game.turn \in Players

\* A king has just set the countdown to 3, the highest value a card sets.
C22_Witness ==
    /\ Played
    /\ RankOf(PlayedCard) = "king"
    /\ game.royal_cards_needed = 3

\* ------------------------------------------------------------------------
\* C24
\* ------------------------------------------------------------------------

\* C24 (slap never changes turn): after every slap, by either player, valid
\* or not, with or without a countdown running, the turn is what it was
\* before the slap.
C24_SlapKeepsTurn ==
    ret.op = "slap" => game.turn = pre.turn

\* A successful slap by the player who does not have the turn, during a
\* countdown.
C24_Witness ==
    /\ ret.op = "slap"
    /\ ret.result = "correct"
    /\ ret.player # pre.turn
    /\ pre.royal_cards_needed >= 0
    /\ game.turn = pre.turn

\* ------------------------------------------------------------------------
\* C25
\* ------------------------------------------------------------------------

InPile(card) == \E k \in 1..Len(game.pile) : game.pile[k] = card

\* C25 (active battle implies a non-empty pile): whenever the countdown is
\* 0 or more, the pile is non-empty and holds the royal card that set the
\* countdown; and whenever the pile is empty the countdown is -1, so that no
\* step clears the pile and leaves a countdown running.
C25_BattleHasPile ==
    /\ game.royal_cards_needed >= 0 =>
          /\ game.pile # << >>
          /\ RankOf(challenge) \in DOMAIN royal_cards
          /\ InPile(challenge)
    /\ game.pile = << >> => game.royal_cards_needed = -1

\* The countdown has reached 0 after a failed slap put a penalty card on
\* the pile above the royal card that set it.
C25_Witness ==
    /\ game.royal_cards_needed = 0
    /\ nslaps = 1
    /\ InPile(challenge)
    /\ game.pile[Len(game.pile)] # challenge
    /\ Len(game.pile) >= 3

\* ------------------------------------------------------------------------
\* C26
\* ------------------------------------------------------------------------

\* C26 (unique loser): in every state reached by plays and slaps from a
\* fresh deal, the two hands are not both empty, so that exactly one viewer
\* at most reads a hand size of zero as its own defeat.
C26_UniqueLoser ==
    ~(game.self_hand = << >> /\ game.opponent_hand = << >>)

\* ------------------------------------------------------------------------
\* C21
\* ------------------------------------------------------------------------

\* No connection has been closed by its client or by the transport: every
\* connection is open, or not there yet, or was turned away by the server.
NoDisconnect == \A c \in Conns : sock[c] \in { "none", "open" } \/ Rejected(c)

\* No handler is in the middle of a broadcast or of a teardown.
AllIdle == \A c \in Conns : pc[c] \in { "idle", "recv", "done" }

\* C21 (consistent views after fan-out): in a full lobby in which no
\* connection was ever closed, once every handler is waiting for its next
\* message, the last message sent to the first connection is status("self")
\* of the game as it is and the last sent to the second is
\* status("opponent"), whatever the interleaving of the handlers was.
C21_ConsistentViews ==
    (Len(roster) = 2 /\ NoDisconnect /\ AllIdle) =>
        /\ sent[roster[1]] = status(game, "self")
        /\ sent[roster[2]] = status(game, "opponent")

\* All handlers are idle again in a full lobby after a call of one
\* connection changed the game while the handler of the other was suspended
\* between the two sends of its broadcast.
C21_Witness ==
    /\ Len(roster) = 2
    /\ NoDisconnect
    /\ AllIdle
    /\ overlapped
    /\ game.pile # << >>

\* ------------------------------------------------------------------------
\* C23
\* ------------------------------------------------------------------------

\* The handler of c can still take a message and dispatch it to the engine.
CanDispatch(c) == pc[c] = "recv" /\ sock[c] = "open"

\* C23 (only roster members act on the session): every connection whose
\* handler can still dispatch an action to the engine is in the roster, and
\* no two such connections hold the same role.
C23_RosterMembership ==
    /\ \A c \in Conns : CanDispatch(c) => InRoster(c)
    /\ \A c \in Conns : \A d \in Conns :
          (c # d /\ CanDispatch(c) /\ CanDispatch(d)) =>
              frame[c].player # frame[d].player

====
